---- MODULE Spec2Model ----
(***************************************************************************)
(* Model of the Bitcoin wire codec of src/lib.rs: CompactSize, OutPoint,   *)
(* Script, TransactionInput and BitcoinTransaction, their to_bytes and     *)
(* from_bytes.                                                             *)
(*                                                                         *)
(* Numbers.  u16, u32, u64 and usize values do not fit a model-checker     *)
(* integer, so a fixed-width unsigned integer is a tuple of 16-bit limbs,  *)
(* least significant limb first: a u32 has 2 limbs, a u64 has 4, a usize   *)
(* has pointer_width / 16.  Arithmetic is done limb by limb with carry, so *)
(* every width keeps its overflow behaviour.  Byte buffers are sequences   *)
(* of 0..255 and buffer lengths and offsets that are bounded by a buffer   *)
(* length are plain integers.                                              *)
(*                                                                         *)
(* Outcomes.  A call returns Ok(value, consumed), returns Err(kind), or    *)
(* panics (slice index out of range, arithmetic overflow with overflow     *)
(* checks on).  The build decides the overflow behaviour and the width of  *)
(* usize; it is fixed per behaviour and chosen in Init.                    *)
(***************************************************************************)
EXTENDS Integers, Sequences, FiniteSets, TLC

\* ------------------------------------------------------------------------
\* Bounds of the model
\* ------------------------------------------------------------------------
MaxScriptLen == 2
MaxInputs == 2
MaxTrailing == 2
MaxHeadLen == 2
MaxFillLen == 9

\* ------------------------------------------------------------------------
\* Fixed-width unsigned integers as limb tuples
\* ------------------------------------------------------------------------
ByteBase == 255 + 1
LimbBase == ByteBase * ByteBase

\* the integer n (0 <= n < 2^31) as a w-limb number
Num(n, w) ==
  [i \in 1..w |-> IF i = 1 THEN n % LimbBase
                  ELSE IF i = 2 THEN n \div LimbBase ELSE 0]

\* `x as uN`: zero-extend or truncate to w limbs
Cast(x, w) == [i \in 1..w |-> IF i <= Len(x) THEN x[i] ELSE 0]

\* a < b for two numbers of the same width
LtNum(a, b) ==
  \E i \in 1..Len(a) : /\ a[i] < b[i]
                       /\ \A j \in (i + 1)..Len(a) : a[j] = b[j]

LeqNum(a, b) == ~LtNum(b, a)

\* a + b in the width of a: the wrapped sum and whether it overflowed
AddNum(a, b) ==
  LET w == Len(a)
      c[i \in 1..(w + 1)] ==
        IF i = 1 THEN 0 ELSE (a[i - 1] + b[i - 1] + c[i - 1]) \div LimbBase
  IN [sum |-> [i \in 1..w |-> (a[i] + b[i] + c[i]) % LimbBase],
      overflow |-> c[w + 1] = 1]

\* the integer value of a number known to be below 2^31
ToInt(x) == x[1] + (IF Len(x) >= 2 THEN LimbBase * x[2] ELSE 0)

\* uN::to_le_bytes
to_le_bytes(x) ==
  [k \in 1..(2 * Len(x)) |-> IF k % 2 = 1 THEN x[(k + 1) \div 2] % ByteBase
                             ELSE x[k \div 2] \div ByteBase]

\* uN::from_le_bytes
from_le_bytes(bs) ==
  [i \in 1..(Len(bs) \div 2) |-> bs[2 * i - 1] + ByteBase * bs[2 * i]]

\* &bytes[a..b] with 0-based half-open range, defined when a <= b <= len
SliceOk(bytes, a, b) == a <= b /\ b <= Len(bytes)
Slice(bytes, a, b) == SubSeq(bytes, a + 1, b)

\* ------------------------------------------------------------------------
\* Outcomes of a call
\* ------------------------------------------------------------------------
Ok(v, n) == [kind |-> "Ok", value |-> v, consumed |-> n]
Err(e) == [kind |-> "Err", error |-> e]
Panic == [kind |-> "Panic"]
None == [kind |-> "None"]
InsufficientBytes == "InsufficientBytes"
InvalidFormat == "InvalidFormat"

\* ------------------------------------------------------------------------
\* CompactSize
\* ------------------------------------------------------------------------
U64Limbs == 64 \div 16
U32Limbs == 32 \div 16

CompactSize_new(value) == [value |-> value]

\* variant: the 2-byte form stops below 0xFFFF instead of at it
CompactSize_to_bytes_strict(self) ==
  IF LeqNum(self.value, Num(252, U64Limbs))
  THEN <<self.value[1] % ByteBase>>
  ELSE IF LtNum(self.value, <<65535, 0, 0, 0>>)
  THEN <<253>> \o SubSeq(to_le_bytes(self.value), 1, 2)
  ELSE IF LeqNum(self.value, <<65535, 65535, 0, 0>>)
  THEN <<254>> \o SubSeq(to_le_bytes(self.value), 1, 4)
  ELSE <<255>> \o to_le_bytes(self.value)

CompactSize_to_bytes(self) ==
  IF LeqNum(self.value, Num(252, U64Limbs))
  THEN <<self.value[1] % ByteBase>>
  ELSE IF LeqNum(self.value, <<65535, 0, 0, 0>>)
  THEN <<253>> \o SubSeq(to_le_bytes(self.value), 1, 2)
  ELSE IF LeqNum(self.value, <<65535, 65535, 0, 0>>)
  THEN <<254>> \o SubSeq(to_le_bytes(self.value), 1, 4)
  ELSE <<255>> \o to_le_bytes(self.value)

\* variant: a value that fits a narrower form is rejected as InvalidFormat
CompactSize_from_bytes_minimal(bytes) ==
  IF Len(bytes) = 0 THEN Err(InsufficientBytes)
  ELSE IF bytes[1] <= 252
  THEN Ok(CompactSize_new(Num(bytes[1], U64Limbs)), 1)
  ELSE IF Len(bytes) < 1 + (CASE bytes[1] = 253 -> 2 [] bytes[1] = 254 -> 4
                              [] bytes[1] = 255 -> 8)
  THEN Err(InsufficientBytes)
  ELSE LET n == 1 + (CASE bytes[1] = 253 -> 2 [] bytes[1] = 254 -> 4
                       [] bytes[1] = 255 -> 8)
           v == Cast(from_le_bytes(SubSeq(bytes, 2, n)), U64Limbs)
       IN IF \/ (bytes[1] = 253 /\ LeqNum(v, Num(252, U64Limbs)))
             \/ (bytes[1] = 254 /\ LeqNum(v, <<65535, 0, 0, 0>>))
             \/ (bytes[1] = 255 /\ LeqNum(v, <<65535, 65535, 0, 0>>))
          THEN Err(InvalidFormat)
          ELSE Ok(CompactSize_new(v), n)

CompactSize_from_bytes(bytes) ==
  IF Len(bytes) = 0 THEN Err(InsufficientBytes)
  ELSE IF bytes[1] <= 252
  THEN Ok(CompactSize_new(Num(bytes[1], U64Limbs)), 1)
  ELSE IF bytes[1] = 253
  THEN IF Len(bytes) < 3 THEN Err(InsufficientBytes)
       ELSE Ok(CompactSize_new(Cast(from_le_bytes(<<bytes[2], bytes[3]>>),
                                    U64Limbs)), 3)
  ELSE IF bytes[1] = 254
  THEN IF Len(bytes) < 5 THEN Err(InsufficientBytes)
       ELSE Ok(CompactSize_new(Cast(from_le_bytes(
                 <<bytes[2], bytes[3], bytes[4], bytes[5]>>), U64Limbs)), 5)
  ELSE IF Len(bytes) < 9 THEN Err(InsufficientBytes)
       ELSE Ok(CompactSize_new(from_le_bytes(
                 <<bytes[2], bytes[3], bytes[4], bytes[5],
                   bytes[6], bytes[7], bytes[8], bytes[9]>>)), 9)

\* ------------------------------------------------------------------------
\* OutPoint
\* ------------------------------------------------------------------------
OutPoint_new(txid, vout) == [txid |-> txid, vout |-> vout]

\* variant: the index is written before the txid
OutPoint_to_bytes_swapped(self) == to_le_bytes(self.vout) \o self.txid

OutPoint_to_bytes(self) == self.txid \o to_le_bytes(self.vout)

\* variant: the whole buffer is reported as consumed
OutPoint_from_bytes_all(bytes) ==
  IF Len(bytes) < 36 THEN Err(InsufficientBytes)
  ELSE Ok([txid |-> Slice(bytes, 0, 32),
           vout |-> from_le_bytes(Slice(bytes, 32, 36))], Len(bytes))

OutPoint_from_bytes(bytes) ==
  IF Len(bytes) < 36 THEN Err(InsufficientBytes)
  ELSE Ok([txid |-> Slice(bytes, 0, 32),
           vout |-> from_le_bytes(Slice(bytes, 32, 36))], 36)

\* ------------------------------------------------------------------------
\* Script
\* ------------------------------------------------------------------------
Script_new(bytes) == [bytes |-> bytes]

Script_to_bytes(self) ==
  LET length == CompactSize_new(Num(Len(self.bytes), U64Limbs))
  IN CompactSize_to_bytes(length) \o self.bytes

\* usize has pointer_width / 16 limbs
UsizeLimbs(build) == build.pointer_width \div 16

\* consumed + length.value as usize: panics on overflow when the build has
\* overflow checks, wraps otherwise
Script_end(length, consumed, build) ==
  LET w == UsizeLimbs(build)
      add == AddNum(Num(consumed, w), Cast(length.value, w))
  IN IF add.overflow /\ build.overflow_checks THEN Panic
     ELSE [kind |-> "Num", num |-> add.sum]

Script_from_bytes(bytes, build) ==
  LET r == CompactSize_from_bytes(bytes) IN
  IF r.kind # "Ok" THEN r
  ELSE
    LET w == UsizeLimbs(build)
        consumed == r.consumed
        end == Script_end(r.value, consumed, build)
    IN IF end.kind = "Panic" THEN Panic
       ELSE IF LtNum(Num(Len(bytes), w), end.num) THEN Err(InsufficientBytes)
       ELSE IF LtNum(end.num, Num(consumed, w)) THEN Panic
       ELSE Ok(Script_new(Slice(bytes, consumed, ToInt(end.num))),
               ToInt(end.num))

\* ------------------------------------------------------------------------
\* TransactionInput
\* ------------------------------------------------------------------------
TransactionInput_new(previous_output, script_sig, sequence) ==
  [previous_output |-> previous_output, script_sig |-> script_sig,
   sequence |-> sequence]

\* variant: the script is written before the outpoint
TransactionInput_to_bytes_swapped(self) ==
  Script_to_bytes(self.script_sig)
    \o OutPoint_to_bytes(self.previous_output)
    \o to_le_bytes(self.sequence)

TransactionInput_to_bytes(self) ==
  OutPoint_to_bytes(self.previous_output)
    \o Script_to_bytes(self.script_sig)
    \o to_le_bytes(self.sequence)

\* variant: a missing sequence field is read as zero instead of panicking
TransactionInput_from_bytes_padded(bytes, build) ==
  LET o == OutPoint_from_bytes(bytes) IN
  IF o.kind # "Ok" THEN o
  ELSE
    LET consumed == o.consumed
        s == Script_from_bytes(Slice(bytes, consumed, Len(bytes)), build)
    IN IF s.kind # "Ok" THEN s
       ELSE
         LET consumed_script == s.consumed
             from == consumed + consumed_script
         IN IF ~SliceOk(bytes, from, from + 4)
            THEN Ok(TransactionInput_new(o.value, s.value,
                                         Num(0, U32Limbs)), from + 4)
            ELSE Ok(TransactionInput_new(o.value, s.value,
                      from_le_bytes(Slice(bytes, from, from + 4))),
                    from + 4)

TransactionInput_from_bytes(bytes, build) ==
  LET o == OutPoint_from_bytes(bytes) IN
  IF o.kind # "Ok" THEN o
  ELSE
    LET consumed == o.consumed
        s == Script_from_bytes(Slice(bytes, consumed, Len(bytes)), build)
    IN IF s.kind # "Ok" THEN s
       ELSE
         LET consumed_script == s.consumed
             from == consumed + consumed_script
         IN IF ~SliceOk(bytes, from, from + 4) THEN Panic
            ELSE Ok(TransactionInput_new(o.value, s.value,
                      from_le_bytes(Slice(bytes, from, from + 4))),
                    from + 4)

\* ------------------------------------------------------------------------
\* BitcoinTransaction
\* ------------------------------------------------------------------------
BitcoinTransaction_new(version, inputs, lock_time) ==
  [version |-> version, inputs |-> inputs, lock_time |-> lock_time]

RECURSIVE ConcatInputs(_)
ConcatInputs(inputs) ==
  IF inputs = <<>> THEN <<>>
  ELSE TransactionInput_to_bytes(Head(inputs)) \o ConcatInputs(Tail(inputs))

BitcoinTransaction_to_bytes(self) ==
  LET input_count == CompactSize_new(Num(Len(self.inputs), U64Limbs))
  IN to_le_bytes(self.version)
       \o CompactSize_to_bytes(input_count)
       \o ConcatInputs(self.inputs)
       \o to_le_bytes(self.lock_time)

\* ------------------------------------------------------------------------
\* Inputs: the values that are encoded and the buffers that are decoded
\* ------------------------------------------------------------------------
SeqsUpTo(S, n) == UNION {[1..k -> S] : k \in 0..n}

\* u64 values: the boundaries of the four CompactSize ranges and values
\* whose bytes all differ (0x1234, 0x0123456789ABCDEF)
U64Values ==
  { Num(0, U64Limbs), Num(5, U64Limbs), Num(252, U64Limbs),
    Num(253, U64Limbs), Num(4660, U64Limbs), <<65535, 0, 0, 0>>,
    <<0, 1, 0, 0>>, <<22136, 4660, 0, 0>>, <<65535, 65535, 0, 0>>,
    <<0, 0, 1, 0>>, <<52719, 35243, 17767, 291>>,
    <<65535, 65535, 65535, 65535>> }

\* u32 values: 0, 1, 2, 500000, 0x12345678, 0xFFFFFFFF
U32Values ==
  { Num(0, U32Limbs), Num(1, U32Limbs), Num(2, U32Limbs),
    Num(500000, U32Limbs), <<22136, 4660>>, <<65535, 65535>> }

ZeroTxid == [i \in 1..32 |-> 0]
CountTxid == [i \in 1..32 |-> i]
Txids == {ZeroTxid, CountTxid}

\* a payload of n bytes that all differ from their neighbours
PatternBytes(n) == [i \in 1..n |-> (i * 7) % ByteBase]

ScriptAlphabet == {0, 171, 255}
Scripts ==
  {Script_new(b) : b \in SeqsUpTo(ScriptAlphabet, MaxScriptLen)}
    \cup {Script_new(PatternBytes(n)) : n \in {252, 253}}

OutPoints == {OutPoint_new(t, v) : t \in Txids, v \in U32Values}

TransactionInputs ==
  {TransactionInput_new(o, s, q) :
     o \in {OutPoint_new(ZeroTxid, Num(0, U32Limbs)),
            OutPoint_new(CountTxid, <<22136, 4660>>)},
     s \in {Script_new(b) : b \in SeqsUpTo({171, 255}, MaxScriptLen)}
             \cup {Script_new(PatternBytes(253))},
     q \in {<<65535, 65535>>, Num(1, U32Limbs)}}

\* the inputs that transactions are built from
TxInputChoices ==
  { TransactionInput_new(OutPoint_new(ZeroTxid, Num(0, U32Limbs)),
                         Script_new(<<>>), <<65535, 65535>>),
    TransactionInput_new(OutPoint_new(CountTxid, <<22136, 4660>>),
                         Script_new([i \in 1..MaxScriptLen |-> 170 + i]),
                         Num(1, U32Limbs)),
    TransactionInput_new(OutPoint_new(CountTxid, Num(1, U32Limbs)),
                         Script_new(<<255>>), Num(0, U32Limbs)) }

BitcoinTransactions ==
  {BitcoinTransaction_new(v, ins, l) :
     v \in {Num(1, U32Limbs), Num(2, U32Limbs)},
     ins \in SeqsUpTo(TxInputChoices, MaxInputs),
     l \in {Num(0, U32Limbs), Num(500000, U32Limbs)}}

Kinds ==
  {"CompactSize", "OutPoint", "Script", "TransactionInput",
   "BitcoinTransaction"}

Values(k) ==
  CASE k = "CompactSize" -> {CompactSize_new(v) : v \in U64Values}
    [] k = "OutPoint" -> OutPoints
    [] k = "Script" -> Scripts
    [] k = "TransactionInput" -> TransactionInputs
    [] k = "BitcoinTransaction" -> BitcoinTransactions

to_bytes(k, v) ==
  CASE k = "CompactSize" -> CompactSize_to_bytes(v)
    [] k = "OutPoint" -> OutPoint_to_bytes(v)
    [] k = "Script" -> Script_to_bytes(v)
    [] k = "TransactionInput" -> TransactionInput_to_bytes(v)
    [] k = "BitcoinTransaction" -> BitcoinTransaction_to_bytes(v)

\* Buffers that are not encodings: a head of arbitrary prefix-like bytes
\* followed by a fill
HeadAlphabet == {0, 1, 2, 5, 252, 253, 254, 255}
Heads == SeqsUpTo(HeadAlphabet, MaxHeadLen)
TxHeads == SeqsUpTo({0, 1, 2, 253, 254}, MaxHeadLen)

Fill(p, n) ==
  [i \in 1..n |-> CASE p = "zero" -> 0
                    [] p = "ones" -> 255
                    [] p = "count" -> i
                    [] p = "bit32" -> IF i = 5 THEN 1 ELSE 0]
Fills == {Fill(p, n) : p \in {"zero", "ones", "count", "bit32"},
                       n \in 0..MaxFillLen}
TxFills == {Fill(p, n) : p \in {"zero", "count"}, n \in 0..MaxFillLen}

RawBuffers(k) ==
  CASE k = "CompactSize" -> {h \o f : h \in Heads, f \in Fills}
    [] k = "Script" -> {h \o f : h \in Heads, f \in Fills}
    [] k = "OutPoint" ->
         {Fill("count", n) : n \in (36 - MaxHeadLen)..(36 + MaxHeadLen)}
    [] k = "TransactionInput" ->
         {OutPoint_to_bytes(OutPoint_new(CountTxid, <<22136, 4660>>))
            \o h \o f : h \in Heads, f \in Fills}
    [] k = "BitcoinTransaction" ->
         {to_le_bytes(Num(1, U32Limbs)) \o h \o ConcatInputs(ins) \o f :
            h \in TxHeads, f \in TxFills,
            ins \in SeqsUpTo({i \in TxInputChoices :
                                Len(i.script_sig.bytes) <= 1}, MaxInputs)}

Trailings == UNION {[1..k -> {0, 253, 255}] : k \in 1..MaxTrailing}

Builds ==
  [overflow_checks : BOOLEAN, pointer_width : {32, 64}]

NoValue == [none |-> TRUE]

\* ------------------------------------------------------------------------
\* State
\* ------------------------------------------------------------------------
VARIABLES
  kind,            \* the entity type under test
  x,               \* the value that was encoded, NoValue for a raw buffer
  bytes,           \* the buffer handed to from_bytes
  origin,          \* how the buffer was made
  build,           \* overflow checks and usize width of the build
  pc,              \* "new", "ready", "loop", "done"
  res,             \* outcome of from_bytes
  prev,            \* outcome of the previous from_bytes, before a reslice
  version,         \* locals of BitcoinTransaction::from_bytes
  input_count,
  inputs,
  total_consumed

vars ==
  <<kind, x, bytes, origin, build, pc, res, prev,
    version, input_count, inputs, total_consumed>>

locals == <<version, input_count, inputs, total_consumed>>

NoLocals ==
  /\ version = Num(0, U32Limbs)
  /\ input_count = CompactSize_new(Num(0, U64Limbs))
  /\ inputs = <<>>
  /\ total_consumed = 0

Init ==
  /\ kind \in Kinds
  /\ build \in Builds
  /\ \/ /\ x \in Values(kind)
        /\ bytes = <<>>
        /\ origin = "none"
        /\ pc = "new"
     \/ /\ x = NoValue
        /\ bytes \in RawBuffers(kind)
        /\ origin = "raw"
        /\ pc = "ready"
  /\ res = None
  /\ prev = None
  /\ NoLocals

\* ------------------------------------------------------------------------
\* Encoding
\* ------------------------------------------------------------------------
Encode(k, encoded) ==
  /\ pc = "new"
  /\ kind = k
  /\ bytes' = encoded
  /\ origin' = "encoded"
  /\ pc' = "ready"
  /\ UNCHANGED <<kind, x, build, res, prev, locals>>

EncodeCompactSize == Encode("CompactSize", CompactSize_to_bytes(x))
EncodeOutPoint == Encode("OutPoint", OutPoint_to_bytes(x))
EncodeScript == Encode("Script", Script_to_bytes(x))
EncodeTransactionInput ==
  Encode("TransactionInput", TransactionInput_to_bytes(x))
EncodeBitcoinTransaction ==
  Encode("BitcoinTransaction", BitcoinTransaction_to_bytes(x))

\* ------------------------------------------------------------------------
\* The caller's handling of the buffer between encode and decode
\* ------------------------------------------------------------------------
Truncate ==
  /\ pc = "ready"
  /\ origin = "encoded"
  /\ \E n \in 0..(Len(bytes) - 1) : bytes' = SubSeq(bytes, 1, n)
  /\ origin' = "truncated"
  /\ UNCHANGED <<kind, x, build, pc, res, prev, locals>>

Extend ==
  /\ pc = "ready"
  /\ origin = "encoded"
  /\ \E t \in Trailings : bytes' = bytes \o t
  /\ origin' = "extended"
  /\ UNCHANGED <<kind, x, build, pc, res, prev, locals>>

\* decode again only the bytes the first decode consumed
Reslice ==
  /\ pc = "done"
  /\ origin = "extended"
  /\ res.kind = "Ok"
  /\ SliceOk(bytes, 0, res.consumed)
  /\ bytes' = Slice(bytes, 0, res.consumed)
  /\ prev' = res
  /\ res' = None
  /\ origin' = "resliced"
  /\ pc' = "ready"
  /\ UNCHANGED <<kind, x, build, locals>>

\* ------------------------------------------------------------------------
\* Decoding
\* ------------------------------------------------------------------------
Decode(k, outcome) ==
  /\ pc = "ready"
  /\ kind = k
  /\ res' = outcome
  /\ pc' = "done"
  /\ UNCHANGED <<kind, x, bytes, origin, build, prev, locals>>

DecodeCompactSize == Decode("CompactSize", CompactSize_from_bytes(bytes))
DecodeOutPoint == Decode("OutPoint", OutPoint_from_bytes(bytes))
DecodeScript == Decode("Script", Script_from_bytes(bytes, build))
DecodeTransactionInput ==
  Decode("TransactionInput", TransactionInput_from_bytes(bytes, build))

\* BitcoinTransaction::from_bytes returns: its locals go out of scope
Return(outcome) ==
  /\ res' = outcome
  /\ pc' = "done"
  /\ version' = Num(0, U32Limbs)
  /\ input_count' = CompactSize_new(Num(0, U64Limbs))
  /\ inputs' = <<>>
  /\ total_consumed' = 0

\* BitcoinTransaction::from_bytes up to the loop
BitcoinTransaction_from_bytes_begin ==
  /\ pc = "ready"
  /\ kind = "BitcoinTransaction"
  /\ IF Len(bytes) < 8 THEN Return(Err(InsufficientBytes))
     ELSE LET c == CompactSize_from_bytes(Slice(bytes, 4, Len(bytes))) IN
       IF c.kind # "Ok" THEN Return(c)
       ELSE /\ version' = from_le_bytes(Slice(bytes, 0, 4))
            /\ input_count' = c.value
            /\ inputs' = <<>>
            /\ total_consumed' = c.consumed + 4
            /\ pc' = "loop"
            /\ res' = res
  /\ UNCHANGED <<kind, x, bytes, origin, build, prev>>

\* variant: the loop's range is inclusive, 0..=input_count.value
LoopContinues_inclusive ==
  LeqNum(Num(Len(inputs), U64Limbs), input_count.value)

\* the loop's range 0..input_count.value is not exhausted
LoopContinues ==
  LtNum(Num(Len(inputs), U64Limbs), input_count.value)

\* one iteration of the loop over 0..input_count.value
BitcoinTransaction_from_bytes_loop ==
  /\ pc = "loop"
  /\ LoopContinues
  /\ IF ~SliceOk(bytes, total_consumed, Len(bytes)) THEN Return(Panic)
     ELSE LET r == TransactionInput_from_bytes(
                     Slice(bytes, total_consumed, Len(bytes)), build) IN
       IF r.kind # "Ok" THEN Return(r)
       ELSE /\ inputs' = Append(inputs, r.value)
            /\ total_consumed' = total_consumed + r.consumed
            /\ UNCHANGED <<version, input_count, pc, res>>
  /\ UNCHANGED <<kind, x, bytes, origin, build, prev>>

\* BitcoinTransaction::from_bytes after the loop
BitcoinTransaction_from_bytes_finish ==
  /\ pc = "loop"
  /\ ~LoopContinues
  /\ IF Len(bytes) < total_consumed + 4 THEN Return(Err(InsufficientBytes))
     ELSE Return(Ok(BitcoinTransaction_new(version, inputs,
                      from_le_bytes(Slice(bytes, total_consumed,
                                          total_consumed + 4))),
                    total_consumed + 4))
  /\ UNCHANGED <<kind, x, bytes, origin, build, prev>>

Next ==
  \/ EncodeCompactSize
  \/ EncodeOutPoint
  \/ EncodeScript
  \/ EncodeTransactionInput
  \/ EncodeBitcoinTransaction
  \/ Truncate
  \/ Extend
  \/ Reslice
  \/ DecodeCompactSize
  \/ DecodeOutPoint
  \/ DecodeScript
  \/ DecodeTransactionInput
  \/ BitcoinTransaction_from_bytes_begin
  \/ BitcoinTransaction_from_bytes_loop
  \/ BitcoinTransaction_from_bytes_finish

Spec == Init /\ [][Next]_vars

TypeOK ==
  /\ kind \in Kinds
  /\ pc \in {"new", "ready", "loop", "done"}
  /\ res.kind \in {"None", "Ok", "Err", "Panic"}

\* ------------------------------------------------------------------------
\* Properties
\* ------------------------------------------------------------------------
Decoded == pc = "done"

\* C1: decoding any strict prefix of a valid encoding, of any entity type,
\* returns Err(InsufficientBytes); it never returns Ok and never panics.
C1_TruncationDetected ==
  (Decoded /\ origin = "truncated") => res = Err(InsufficientBytes)

\* C2: decoding the encoding of a value returns that value and the full
\* encoded length, for every entity type; the empty script encodes as the
\* byte 00 and the transaction version 1, no inputs, lock time 0 as
\* 01 00 00 00 00 00 00 00 00.
C2_RoundTrip ==
  /\ (Decoded /\ origin = "encoded") =>
       /\ res = Ok(x, Len(bytes))
       /\ bytes = to_bytes(kind, x)
  /\ (origin = "encoded" /\ kind = "Script" /\ x.bytes = <<>>) =>
       bytes = <<0>>
  /\ (origin = "encoded" /\ kind = "BitcoinTransaction"
        /\ x = BitcoinTransaction_new(<<1, 0>>, <<>>, <<0, 0>>)) =>
       bytes = <<1, 0, 0, 0, 0, 0, 0, 0, 0>>

C2_Witness ==
  /\ Decoded
  /\ origin = "encoded"
  /\ kind = "BitcoinTransaction"
  /\ Len(x.inputs) = MaxInputs
  /\ res.kind = "Ok"
  /\ res.value = x

\* C3: TransactionInput::from_bytes returns Err(InsufficientBytes) when
\* fewer than 4 bytes remain after the OutPoint and the Script, and returns
\* a failure of the OutPoint or Script decode unchanged.
C3_SequenceChecked ==
  (Decoded /\ kind = "TransactionInput") =>
    LET o == OutPoint_from_bytes(bytes) IN
    IF o.kind = "Err" THEN res = o
    ELSE LET s == Script_from_bytes(Slice(bytes, 36, Len(bytes)), build) IN
      IF s.kind = "Err" THEN res = s
      ELSE (s.kind = "Ok" /\ Len(bytes) - (36 + s.consumed) < 4) =>
             res = Err(InsufficientBytes)

\* C4: Script::from_bytes, when the length prefix decodes to L with width
\* w, returns Err(InsufficientBytes) if fewer than L bytes remain after the
\* prefix, for every L of the u64 range, and otherwise returns the L payload
\* bytes and consumed = w + L.
C4_ScriptLengthChecked ==
  (Decoded /\ kind = "Script") =>
    LET p == CompactSize_from_bytes(bytes) IN
    p.kind = "Ok" =>
      LET L == p.value.value
          w == p.consumed
      IN IF LtNum(Num(Len(bytes) - w, U64Limbs), L)
         THEN res = Err(InsufficientBytes)
         ELSE res = Ok(Script_new(Slice(bytes, w, w + ToInt(L))),
                       w + ToInt(L))

\* C5: CompactSize::to_bytes emits the value itself as one byte up to 0xFC,
\* FD and 2 little-endian bytes up to 0xFFFF, FE and 4 little-endian bytes
\* up to 0xFFFFFFFF, and FF and 8 little-endian bytes above: never a wider
\* form than the value needs.
LimbAt(b, i) == b[2 * i] + ByteBase * b[2 * i + 1]

C5_MinimalEncoding ==
  (kind = "CompactSize" /\ origin = "encoded") =>
    LET v == x.value IN
    IF v[4] = 0 /\ v[3] = 0 /\ v[2] = 0 /\ v[1] <= 252
    THEN bytes = <<v[1]>>
    ELSE IF v[4] = 0 /\ v[3] = 0 /\ v[2] = 0
    THEN Len(bytes) = 3 /\ bytes[1] = 253 /\ LimbAt(bytes, 1) = v[1]
    ELSE IF v[4] = 0 /\ v[3] = 0
    THEN /\ Len(bytes) = 5 /\ bytes[1] = 254
         /\ \A i \in 1..2 : LimbAt(bytes, i) = v[i]
    ELSE /\ Len(bytes) = 9 /\ bytes[1] = 255
         /\ \A i \in 1..4 : LimbAt(bytes, i) = v[i]

C5_Witness ==
  /\ kind = "CompactSize"
  /\ origin = "encoded"
  /\ x.value = <<65535, 0, 0, 0>>
  /\ bytes = <<253, 255, 255>>

\* C6: decoding a valid encoding followed by trailing bytes returns the
\* encoded value and a consumed count below the buffer length, the same as
\* without the trailing bytes, and decoding only the consumed prefix gives
\* the identical result.
C6_OffsetAccounting ==
  /\ (Decoded /\ origin = "extended") =>
       /\ res.kind = "Ok"
       /\ res.value = x
       /\ res.consumed < Len(bytes)
       /\ res.consumed = Len(to_bytes(kind, x))
  /\ (Decoded /\ origin = "resliced") => res = prev

C6_Witness ==
  /\ Decoded
  /\ origin = "resliced"
  /\ kind = "BitcoinTransaction"
  /\ res.kind = "Ok"
  /\ Len(res.value.inputs) = MaxInputs
  /\ res.consumed = Len(bytes)

\* C7: CompactSize::from_bytes accepts every buffer that starts with FD, FE
\* or FF and has the 2, 4 or 8 following bytes: it returns their
\* little-endian value and consumed 3, 5 or 9, also when the value fits a
\* narrower form (FD 05 00 gives value 5, consumed 3).
Width(prefix) ==
  CASE prefix = 253 -> 2 [] prefix = 254 -> 4 [] prefix = 255 -> 8

C7_DecodePermissive ==
  (Decoded /\ kind = "CompactSize" /\ Len(bytes) >= 1) =>
    /\ (bytes[1] >= 253 /\ Len(bytes) >= 1 + Width(bytes[1])) =>
         /\ res.kind = "Ok"
         /\ res.consumed = 1 + Width(bytes[1])
         /\ \A i \in 1..U64Limbs :
              res.value.value[i] =
                IF 2 * i <= Width(bytes[1]) THEN LimbAt(bytes, i) ELSE 0
    /\ bytes = <<253, 5, 0>> => res = Ok(CompactSize_new(<<5, 0, 0, 0>>), 3)

C7_Witness ==
  /\ Decoded
  /\ kind = "CompactSize"
  /\ bytes = <<253, 5, 0>>
  /\ res.kind = "Ok"
  /\ res.consumed = 3

\* C8: BitcoinTransaction::from_bytes decodes exactly input_count.value
\* inputs, the i-th at the offset the previous ones left: an Ok result holds
\* exactly that many inputs in buffer order, and the first input decode that
\* fails is the result of the whole decode, with no partial transaction.
RECURSIVE InputRun(_, _, _, _, _)
InputRun(b, bld, count, off, acc) ==
  IF ~LtNum(Num(Len(acc), U64Limbs), count)
  THEN [kind |-> "Ok", inputs |-> acc, off |-> off]
  ELSE LET r == TransactionInput_from_bytes(Slice(b, off, Len(b)), bld) IN
       IF r.kind # "Ok" THEN r
       ELSE InputRun(b, bld, count, off + r.consumed, Append(acc, r.value))

C8_InputLoop ==
  kind = "BitcoinTransaction" =>
    /\ pc = "loop" =>
         /\ LeqNum(Num(Len(inputs), U64Limbs), input_count.value)
         /\ total_consumed <= Len(bytes)
    /\ (Decoded /\ Len(bytes) >= 8) =>
         LET c == CompactSize_from_bytes(Slice(bytes, 4, Len(bytes))) IN
         c.kind = "Ok" =>
           LET run == InputRun(bytes, build, c.value.value,
                               4 + c.consumed, <<>>)
           IN IF run.kind = "Ok"
              THEN IF Len(bytes) < run.off + 4
                   THEN res = Err(InsufficientBytes)
                   ELSE /\ res.kind = "Ok"
                        /\ res.value.inputs = run.inputs
                        /\ Num(Len(res.value.inputs), U64Limbs)
                             = c.value.value
                        /\ res.consumed = run.off + 4
              ELSE res = run
    /\ Decoded => inputs = <<>>

C8_Witness ==
  /\ Decoded
  /\ kind = "BitcoinTransaction"
  /\ origin = "raw"
  /\ res.kind = "Ok"
  /\ Len(res.value.inputs) = 1
  /\ res.consumed < Len(bytes)

\* C9: an encoded TransactionInput is 36 + the CompactSize width of the
\* script length + the script length + 4 bytes long, in the order outpoint,
\* script, sequence; an encoded BitcoinTransaction is 4 + the CompactSize
\* width of the number of inputs + the inputs' encoded lengths + 4 bytes
\* long, the inputs in their sequence order.
RECURSIVE SumLen(_)
SumLen(ins) ==
  IF ins = <<>> THEN 0
  ELSE Len(TransactionInput_to_bytes(Head(ins))) + SumLen(Tail(ins))

VarIntSize(n) == Len(CompactSize_to_bytes(CompactSize_new(Num(n, U64Limbs))))

C9_EncodedLength ==
  /\ (kind = "TransactionInput" /\ origin = "encoded") =>
       LET n == Len(x.script_sig.bytes)
           w == VarIntSize(n)
       IN /\ Len(bytes) = 36 + w + n + 4
          /\ Slice(bytes, 0, 32) = x.previous_output.txid
          /\ from_le_bytes(Slice(bytes, 32, 36)) = x.previous_output.vout
          /\ Slice(bytes, 36 + w, 36 + w + n) = x.script_sig.bytes
          /\ from_le_bytes(Slice(bytes, 36 + w + n, 36 + w + n + 4))
               = x.sequence
  /\ (kind = "BitcoinTransaction" /\ origin = "encoded") =>
       LET k == Len(x.inputs)
           w == VarIntSize(k)
       IN /\ Len(bytes) = 4 + w + SumLen(x.inputs) + 4
          /\ \A i \in 1..k :
               LET from == 4 + w + SumLen(SubSeq(x.inputs, 1, i - 1))
                   e == TransactionInput_to_bytes(x.inputs[i])
               IN Slice(bytes, from, from + Len(e)) = e

C9_Witness ==
  /\ kind = "BitcoinTransaction"
  /\ origin = "encoded"
  /\ Len(x.inputs) = MaxInputs
  /\ x.inputs[1] # x.inputs[MaxInputs]
  /\ Len(bytes) = 4 + 1 + SumLen(x.inputs) + 4

\* C10: on every buffer and for every entity type, an Ok result has
\* 1 <= consumed <= buffer length, and a returned error is
\* InsufficientBytes, never InvalidFormat.
C10_ConsumedInRange ==
  Decoded =>
    /\ res.kind = "Ok" => (1 <= res.consumed /\ res.consumed <= Len(bytes))
    /\ res.kind = "Err" => res.error = InsufficientBytes

C10_Witness ==
  /\ Decoded
  /\ origin = "raw"
  /\ kind = "Script"
  /\ res.kind = "Ok"
  /\ res.consumed = Len(bytes)
  /\ bytes[1] = 253

====
